---------------------------- MODULE Spec2Model ----------------------------
(***************************************************************************)
(* TaskFlow Lite: the task store (src/app.js), the localStorage gateway    *)
(* (src/modules/storage.js), the validator (src/modules/validation.js) and *)
(* the view projector (src/modules/render.js).                             *)
(*                                                                         *)
(* Strings are sequences of UTF-16 code units.  A timestamp is the clock   *)
(* value in milliseconds (an ISO-8601 string orders as its instant does).  *)
(* A task id, Date.now() + Math.random(), is kept as the integer           *)
(* ms * FracDen + r, which stands for ms + r / FracDen.                    *)
(***************************************************************************)
EXTENDS Integers, Sequences, FiniteSets, TLC

(***************************** bounds ***************************************)
MaxTasks == 2      \* tasks a collection may hold before create is cut off
MaxHist  == 2      \* history entries a tab may push before pushes are cut off
MaxClock == 2      \* last clock value (milliseconds)
MaxEvents == 2     \* storage events that may wait in a tab's queue
FracDen  == 2      \* Math.random() takes the values r / FracDen, r in 0..FracDen-1

(***************************** strings **************************************)
\* white space as String.prototype.trim and the regular expression \s see it
WhiteSpace == {9, 10, 11, 12, 13, 32, 160, 5760, 8232, 8233, 8239, 8287, 12288, 65279}
                 \cup (8192..8202)

RECURSIVE trimStart(_)
trimStart(s) ==
    IF s = <<>> THEN <<>>
    ELSE IF Head(s) \in WhiteSpace THEN trimStart(Tail(s)) ELSE s

RECURSIVE trimEnd(_)
trimEnd(s) ==
    IF s = <<>> THEN <<>>
    ELSE IF s[Len(s)] \in WhiteSpace THEN trimEnd(SubSeq(s, 1, Len(s) - 1)) ELSE s

trim(s) == trimEnd(trimStart(s))

\* s.replace(/\s+/g, ' '): of every run of white space the first character
\* stays, as a space
collapseSpaces(s) ==
    LET kept == SelectSeq([i \in 1..Len(s) |-> i],
                          LAMBDA i : s[i] \notin WhiteSpace \/ i = 1
                                        \/ s[i - 1] \notin WhiteSpace)
    IN  [k \in 1..Len(kept) |-> IF s[kept[k]] \in WhiteSpace THEN 32 ELSE s[kept[k]]]

\* s.replace(/[\r\n\t]/g, ' ')
replaceBreaks(s) == [i \in 1..Len(s) |-> IF s[i] \in {13, 10, 9} THEN 32 ELSE s[i]]

\* s.replace(/[<>]/g, '')
stripAngles(s) == SelectSeq(s, LAMBDA c : c \notin {60, 62})

\* s.substring(0, n)
substring0(s, n) == SubSeq(s, 1, IF Len(s) < n THEN Len(s) ELSE n)

\* String.prototype.toLowerCase on the Basic Latin and Latin-1 letters
lowerChar(c) ==
    IF c \in 65..90 THEN c + 32
    ELSE IF c \in (192..222) \ {215} THEN c + 32
    ELSE c

toLowerCase(s) == [i \in 1..Len(s) |-> lowerChar(s[i])]

(***************************** validation.js ********************************)
minLength == 1
maxLength == 200

\* VALIDATION_RULES.task.allowedChars
AllowedChars ==
    (97..122) \cup (65..90) \cup (48..57) \cup WhiteSpace
    \cup {45, 46, 44, 33, 63, 40, 41, 91, 93, 123, 125, 58, 59, 34, 39, 64, 35, 36,
          37, 94, 38, 42, 43, 61, 95, 126, 96, 124, 92, 47, 60, 62}
    \cup (192..591) \cup (7680..7935)

allowedCharsTest(s) == \A i \in 1..Len(s) : s[i] \in AllowedChars

\* JavaScript null, where a string is expected (prompt() cancelled)
null == <<-1>>

sanitizeInput(input) ==
    IF input = null THEN <<>>
    ELSE substring0(stripAngles(replaceBreaks(collapseSpaces(trim(input)))), maxLength)

isDuplicate(value, existingTasks) ==
    \E i \in 1..Len(existingTasks) :
        trim(toLowerCase(existingTasks[i].text)) = toLowerCase(value)

\* the result object of validateTaskInput: isValid, errors (their types), cleaned
validateTaskInput(input, existingTasks) ==
    LET value == IF input = null THEN <<>> ELSE trim(input)
        e1 == IF Len(value) < minLength THEN <<"TOO_SHORT">> ELSE <<>>
        e2 == IF Len(value) > maxLength THEN <<"TOO_LONG">> ELSE <<>>
        e3 == IF ~allowedCharsTest(value) THEN <<"INVALID_CHARS">> ELSE <<>>
        e4 == IF Len(existingTasks) > 0 /\ isDuplicate(value, existingTasks)
              THEN <<"DUPLICATE">> ELSE <<>>
        errors == e1 \o e2 \o e3 \o e4
    IN  IF value = <<>>
        THEN [isValid |-> FALSE, errors |-> <<"REQUIRED">>, cleaned |-> <<>>]
        ELSE [isValid |-> errors = <<>>, errors |-> errors, cleaned |-> value]

(***************************** storage.js ***********************************)
\* A field a stored record lacks reads as undefined.  In-memory tasks never
\* hold these values; only records decoded from localStorage can.
undefinedNum == -1
undefinedStr == <<-2>>

\* the values "x || default" replaces: undefined and 0, undefined and ''
FalsyNum(v) == v \in {undefinedNum, 0}
FalsyStr(v) == v \in {undefinedStr, <<>>}
\* createdAt and updatedAt are ISO strings, kept as their millisecond: the
\* string of millisecond 0 is not falsy, only a missing one is
FalsyDate(v) == v = undefinedNum

\* Boolean(v); a stored record that lacks the flag is kept with FALSE, which
\* is what Boolean(undefined) gives
Boolean(v) == v = TRUE

\* the value localStorage.getItem returns for a key: null, or the JSON text,
\* kept as the array it parses to
NoItem           == [kind |-> "null",  items |-> <<>>]
JsonArray(items) == [kind |-> "array", items |-> items]
\* a text JSON.parse rejects, and the JSON text of a value that is no array
NotJson          == [kind |-> "invalid", items |-> <<>>]
JsonValue        == [kind |-> "value", items |-> <<>>]

\* elements of a stored array that are no records.  A number or a string:
\* every field read from it is undefined.  null: reading a field raises.
JsonPrimitive ==
    [id |-> undefinedNum, text |-> undefinedStr, completed |-> FALSE,
     createdAt |-> undefinedNum, updatedAt |-> undefinedNum]
JsonNull == [JsonPrimitive EXCEPT !.text = <<-3>>]

NoMeta     == [present |-> FALSE, lastModified |-> 0, taskCount |-> 0]
\* a key the settings object does not have: JSON.stringify leaves it out
absentKey  == "undefined"
NoSettings == [present |-> FALSE, theme |-> "light", filter |-> "all",
               sortBy |-> absentKey, sortOrder |-> absentKey]
\* a settings text JSON.parse rejects
NotJsonSettings == [present |-> TRUE, theme |-> "{", filter |-> "{",
                    sortBy |-> "{", sortOrder |-> "{"]

\* Date.now(), in the representation of ids
DateNow(now) == now * FracDen

\* an argument of saveTasks for which Array.isArray is false (null, undefined,
\* a string, an object)
notArray == <<[JsonPrimitive EXCEPT !.text = <<-4>>]>>

\* the predicate of tasks.filter in saveTasks
isValidTask(task) ==
    /\ task.id # undefinedNum
    /\ task.text # undefinedStr
    /\ task.completed \in BOOLEAN

\* what the two setItem calls of one saveTasks call may do
SaveOutcomes == {"ok", "quotaTasks", "quotaMeta"}

\* saveTasks with "return true" moved behind the try block: a write that
\* raised is reported as done
saveTasksReturnsTrue(tasks, ls, now, outcome) ==
    LET validTasks == SelectSeq(tasks, isValidTask)
        serializedData == JsonArray(validTasks)
        metadata == [present |-> TRUE, lastModified |-> now,
                     taskCount |-> Len(validTasks)]
        ls1 == [ls EXCEPT !.tasks = serializedData]
        ls2 == [ls1 EXCEPT !.meta = metadata]
        k1 == IF ls.tasks # serializedData THEN <<"taskflow_tasks">> ELSE <<>>
        k2 == IF ls.meta # metadata THEN <<"taskflow_tasks_meta">> ELSE <<>>
    IN  CASE tasks = notArray       -> [ok |-> TRUE, ls |-> ls,  keys |-> <<>>]
          [] outcome = "quotaTasks" -> [ok |-> TRUE, ls |-> ls,  keys |-> <<>>]
          [] outcome = "quotaMeta"  -> [ok |-> TRUE, ls |-> ls1, keys |-> k1]
          [] OTHER                  -> [ok |-> TRUE, ls |-> ls2, keys |-> k1 \o k2]

\* saveTasks without the filter of valid entries
saveTasksKeepsAll(tasks, ls, now, outcome) ==
    LET validTasks == tasks
        serializedData == JsonArray(validTasks)
        metadata == [present |-> TRUE, lastModified |-> now,
                     taskCount |-> Len(validTasks)]
        ls1 == [ls EXCEPT !.tasks = serializedData]
        ls2 == [ls1 EXCEPT !.meta = metadata]
        k1 == IF ls.tasks # serializedData THEN <<"taskflow_tasks">> ELSE <<>>
        k2 == IF ls.meta # metadata THEN <<"taskflow_tasks_meta">> ELSE <<>>
    IN  CASE tasks = notArray       -> [ok |-> FALSE, ls |-> ls,  keys |-> <<>>]
          [] outcome = "quotaTasks" -> [ok |-> FALSE, ls |-> ls,  keys |-> <<>>]
          [] outcome = "quotaMeta"  -> [ok |-> FALSE, ls |-> ls1, keys |-> k1]
          [] OTHER                  -> [ok |-> TRUE,  ls |-> ls2, keys |-> k1 \o k2]

\* saveTasks(tasks): the returned boolean, localStorage afterwards, and the
\* keys whose value changed (each raises a storage event in the other tabs)
saveTasks(tasks, ls, now, outcome) ==
    LET validTasks == SelectSeq(tasks, isValidTask)
        serializedData == JsonArray(validTasks)
        metadata == [present |-> TRUE, lastModified |-> now,
                     taskCount |-> Len(validTasks)]
        ls1 == [ls EXCEPT !.tasks = serializedData]
        ls2 == [ls1 EXCEPT !.meta = metadata]
        k1 == IF ls.tasks # serializedData THEN <<"taskflow_tasks">> ELSE <<>>
        k2 == IF ls.meta # metadata THEN <<"taskflow_tasks_meta">> ELSE <<>>
    IN  CASE tasks = notArray       -> [ok |-> FALSE, ls |-> ls,  keys |-> <<>>]
          [] outcome = "quotaTasks" -> [ok |-> FALSE, ls |-> ls,  keys |-> <<>>]
          [] outcome = "quotaMeta"  -> [ok |-> FALSE, ls |-> ls1, keys |-> k1]
          [] OTHER                  -> [ok |-> TRUE,  ls |-> ls2, keys |-> k1 \o k2]

\* the record loadTasks builds from a decoded record
withDefaults(task, now) ==
    [id        |-> IF FalsyNum(task.id) THEN DateNow(now) ELSE task.id,
     text      |-> IF FalsyStr(task.text) THEN <<>> ELSE task.text,
     completed |-> Boolean(task.completed),
     createdAt |-> IF FalsyDate(task.createdAt) THEN now ELSE task.createdAt,
     updatedAt |-> IF ~FalsyDate(task.updatedAt) THEN task.updatedAt
                   ELSE IF ~FalsyDate(task.createdAt) THEN task.createdAt ELSE now]

\* loadTasks(): nothing stored; JSON.parse raised (caught); not an array;
\* task.id raised on a null element (caught); else the mapped array
loadTasks(ls, now) ==
    IF ls.tasks.kind = "null" THEN <<>>
    ELSE IF ls.tasks.kind = "invalid" THEN <<>>
    ELSE IF ls.tasks.kind # "array" THEN <<>>
    ELSE IF \E i \in 1..Len(ls.tasks.items) : ls.tasks.items[i] = JsonNull THEN <<>>
    ELSE [i \in 1..Len(ls.tasks.items) |-> withDefaults(ls.tasks.items[i], now)]

getDefaultSettings ==
    [theme |-> "light", filter |-> "all", sortBy |-> "createdAt", sortOrder |-> "desc"]

\* { ...defaults, ...settings }
SpreadOver(defaults, settings) ==
    [theme     |-> IF settings.theme = absentKey THEN defaults.theme
                   ELSE settings.theme,
     filter    |-> IF settings.filter = absentKey THEN defaults.filter
                   ELSE settings.filter,
     sortBy    |-> IF settings.sortBy = absentKey THEN defaults.sortBy
                   ELSE settings.sortBy,
     sortOrder |-> IF settings.sortOrder = absentKey THEN defaults.sortOrder
                   ELSE settings.sortOrder]

\* loadSettings that returns the decoded record as it is
loadSettingsAsStored(ls) ==
    IF ~ls.settings.present THEN getDefaultSettings
    ELSE IF ls.settings = NotJsonSettings THEN getDefaultSettings
    ELSE [theme |-> ls.settings.theme, filter |-> ls.settings.filter,
          sortBy |-> ls.settings.sortBy, sortOrder |-> ls.settings.sortOrder]

loadSettings(ls) ==
    IF ~ls.settings.present THEN getDefaultSettings
    ELSE IF ls.settings = NotJsonSettings THEN getDefaultSettings
    ELSE SpreadOver(getDefaultSettings,
                    [theme |-> ls.settings.theme, filter |-> ls.settings.filter,
                     sortBy |-> ls.settings.sortBy,
                     sortOrder |-> ls.settings.sortOrder])

\* importTasks(data), data holding a task array and no settings: the result
\* of saveTasks is not looked at
importTasks(ls, tasks, now, outcome) == saveTasks(tasks, ls, now, outcome)

\* saveSettings(settings): localStorage afterwards and the keys that changed
saveSettings(settings, ls) ==
    LET serializedData == [present |-> TRUE, theme |-> settings.theme,
                           filter |-> settings.filter, sortBy |-> settings.sortBy,
                           sortOrder |-> settings.sortOrder]
    IN  [ls   |-> [ls EXCEPT !.settings = serializedData],
         keys |-> IF ls.settings # serializedData
                  THEN <<"taskflow_settings">> ELSE <<>>]

(***************************** render.js ************************************)
\* filterTasks whose case 'completed' falls through to the default
filterTasksFallThrough(tasks, filter) ==
    CASE filter = "active" -> SelectSeq(tasks, LAMBDA task : ~task.completed)
      [] OTHER             -> tasks

filterTasks(tasks, filter) ==
    CASE filter = "active"    -> SelectSeq(tasks, LAMBDA task : ~task.completed)
      [] filter = "completed" -> SelectSeq(tasks, LAMBDA task : task.completed)
      [] OTHER                -> tasks

\* the data-id attribute createTaskHTML writes: the decimal text of the id,
\* kept as its integer digits and its fraction digits
dataId(id) == [int |-> id \div FracDen, frac |-> id % FracDen]

\* parseInt(text): the integer the leading digits denote, as an id
parseInt(d) == d.int * FracDen

\* one <li class="task"> of the rendered list
createTaskHTML(task) ==
    [id |-> dataId(task.id), text |-> task.text, checked |-> task.completed]

renderTaskList(tasks, currentFilter) ==
    LET filteredTasks == filterTasks(tasks, currentFilter)
    IN  [i \in 1..Len(filteredTasks) |-> createTaskHTML(filteredTasks[i])]

updateEmptyStateMessage(filter, totalTasks) ==
    CASE filter = "active" ->
             [title       |-> IF totalTasks = 0 THEN "No tasks yet"
                              ELSE "All tasks completed!",
              description |-> IF totalTasks = 0
                              THEN "Add your first task above to get started!"
                              ELSE "Great job! You've completed all your tasks."]
      [] filter = "completed" ->
             [title       |-> "No completed tasks",
              description |-> "Complete some tasks to see them here."]
      [] OTHER ->
             [title       |-> "No tasks yet",
              description |-> "Add your first task above to get started!"]

\* what renderTaskList leaves in the element 'empty-state': hidden, or shown
\* with the message of the filter
emptyState(tasks, currentFilter) ==
    IF filterTasks(tasks, currentFilter) = <<>>
    THEN [hidden |-> FALSE,
          message |-> updateEmptyStateMessage(currentFilter, Len(tasks))]
    ELSE [hidden |-> TRUE, message |-> [title |-> "", description |-> ""]]

updateTaskCounters(tasks) ==
    [all       |-> Len(tasks),
     active    |-> Len(SelectSeq(tasks, LAMBDA task : ~task.completed)),
     completed |-> Len(SelectSeq(tasks, LAMBDA task : task.completed))]

(***************************** app.js: TaskFlowApp **************************)
maxHistory == 50

\* JSON.stringify and JSON.parse of a task array
JSONstringify(tasks) == JsonArray(tasks)
JSONparse(text) == text.items

NoModal == [show |-> FALSE, onclick |-> "null", taskId |-> 0, completedCount |-> 0]

\* the object the constructor builds
NewApp ==
    [tasks |-> <<>>,
     settings |-> [theme |-> "light", filter |-> "all",
                   sortBy |-> absentKey, sortOrder |-> absentKey],
     currentFilter |-> "all", isInitialized |-> FALSE,
     history |-> <<>>, historyIndex |-> -1,
     taskList |-> <<>>, counters |-> [all |-> 0, active |-> 0, completed |-> 0],
     modal |-> NoModal, microtasks |-> <<>>,
     dataTheme |-> "null"]

\* A handler runs on a context c: the app object, localStorage, and what the
\* handler has done so far: notes (the types of the notifications raised),
\* counts (the numbers its notifications report), calls (its calls of
\* saveTasks and render, in order), saved (the arrays it passed to saveTasks),
\* saves (the values saveTasks returned) and keys (storage keys it changed).
Context(app, ls) ==
    [app |-> app, ls |-> ls, notes |-> <<>>, counts |-> <<>>, calls |-> <<>>,
     saved |-> <<>>, saves |-> <<>>, keys |-> <<>>, out |-> <<>>]

showNotification(c, type) == [c EXCEPT !.notes = Append(@, type)]

loadAppData(c, now) ==
    LET settings == loadSettings(c.ls)
    IN  [c EXCEPT !.app.tasks = loadTasks(c.ls, now),
                  !.app.settings = settings,
                  !.app.currentFilter = IF settings.filter \in {absentKey, ""}
                                         THEN "all" ELSE settings.filter]

\* render without the call of updateTaskCounters
renderListOnly(c) ==
    [c EXCEPT !.app.taskList = renderTaskList(c.app.tasks, c.app.currentFilter),
              !.out = emptyState(c.app.tasks, c.app.currentFilter),
              !.calls = Append(@, "render")]

render(c) ==
    [c EXCEPT !.app.taskList = renderTaskList(c.app.tasks, c.app.currentFilter),
              !.app.counters = updateTaskCounters(c.app.tasks),
              !.out = emptyState(c.app.tasks, c.app.currentFilter),
              !.calls = Append(@, "render")]

\* saveData without its else branch: a failed write is not reported
saveDataSilent(c, now, outcome) ==
    LET r == saveTasks(c.app.tasks, c.ls, now, outcome)
    IN  [c EXCEPT !.ls = r.ls, !.saves = Append(@, r.ok), !.keys = @ \o r.keys,
                  !.calls = Append(@, "saveTasks"), !.saved = Append(@, c.app.tasks)]

saveData(c, now, outcome) ==
    LET r == saveTasks(c.app.tasks, c.ls, now, outcome)
        c1 == [c EXCEPT !.ls = r.ls, !.saves = Append(@, r.ok), !.keys = @ \o r.keys,
                        !.calls = Append(@, "saveTasks"),
                        !.saved = Append(@, c.app.tasks)]
    IN  IF r.ok THEN c1 ELSE showNotification(c1, "error")

\* saveState with pop() in the place of shift(): the newest snapshot goes
saveStateDropsNewest(c) ==
    LET pushed == Append(c.app.history, JSONstringify(c.app.tasks))
        history == IF Len(pushed) > maxHistory THEN SubSeq(pushed, 1, maxHistory) ELSE pushed
    IN  [c EXCEPT !.app.history = history, !.app.historyIndex = Len(history) - 1]

saveState(c) ==
    LET pushed == Append(c.app.history, JSONstringify(c.app.tasks))
        history == IF Len(pushed) > maxHistory THEN Tail(pushed) ELSE pushed
    IN  [c EXCEPT !.app.history = history, !.app.historyIndex = Len(history) - 1]

\* undo that takes the snapshot it restores out of the history
undoPops(c, now, outcome) ==
    IF c.app.historyIndex > 0
    THEN LET c1 == [c EXCEPT !.app.historyIndex = @ - 1]
             c2 == [c1 EXCEPT !.app.tasks = JSONparse(c1.app.history[c1.app.historyIndex + 1]),
                              !.app.history = SubSeq(@, 1, c1.app.historyIndex + 1)]
         IN  showNotification(render(saveData(c2, now, outcome)), "success")
    ELSE c

undo(c, now, outcome) ==
    IF c.app.historyIndex > 0
    THEN LET c1 == [c EXCEPT !.app.historyIndex = @ - 1]
             c2 == [c1 EXCEPT !.app.tasks = JSONparse(c1.app.history[c1.app.historyIndex + 1])]
         IN  showNotification(render(saveData(c2, now, outcome)), "success")
    ELSE c

createTask(text, now, random) ==
    [id |-> DateNow(now) + random, text |-> sanitizeInput(text), completed |-> FALSE,
     createdAt |-> now, updatedAt |-> now]

\* addTask with push() in the place of unshift()
addTaskAppends(c, task, now, outcome) ==
    LET c1 == saveState(c)
        c2 == [c1 EXCEPT !.app.tasks = Append(@, task)]
    IN  showNotification(render(saveData(c2, now, outcome)), "success")

addTask(c, task, now, outcome) ==
    LET c1 == saveState(c)
        c2 == [c1 EXCEPT !.app.tasks = <<task>> \o @]
    IN  showNotification(render(saveData(c2, now, outcome)), "success")

\* tasks.findIndex(t => t.id === taskId), from 1; 0 when no task has the id
findIndex(tasks, taskId) ==
    IF \E i \in 1..Len(tasks) : tasks[i].id = taskId
    THEN CHOOSE i \in 1..Len(tasks) :
            /\ tasks[i].id = taskId
            /\ \A j \in 1..(i - 1) : tasks[j].id # taskId
    ELSE 0

\* toggleTask that marks the task completed whatever it was
toggleTaskCompletes(c, taskId, now, outcome) ==
    LET c1 == saveState(c)
        i == findIndex(c1.app.tasks, taskId)
    IN  IF i # 0
        THEN LET c2 == [c1 EXCEPT !.app.tasks[i].completed = TRUE,
                                  !.app.tasks[i].updatedAt = now]
             IN  showNotification(render(saveData(c2, now, outcome)), "success")
        ELSE c1

toggleTask(c, taskId, now, outcome) ==
    LET c1 == saveState(c)
        i == findIndex(c1.app.tasks, taskId)
    IN  IF i # 0
        THEN LET c2 == [c1 EXCEPT !.app.tasks[i].completed = ~@,
                                  !.app.tasks[i].updatedAt = now]
             IN  showNotification(render(saveData(c2, now, outcome)), "success")
        ELSE c1

\* deleteTask with saveData() called before the splice
deleteTaskSavesFirst(c, taskId, now, outcome) ==
    LET c1 == saveState(c)
        taskIndex == findIndex(c1.app.tasks, taskId)
    IN  IF taskIndex # 0
        THEN LET c2 == saveData(c1, now, outcome)
                 c3 == [c2 EXCEPT !.app.tasks =
                           SubSeq(@, 1, taskIndex - 1) \o SubSeq(@, taskIndex + 1, Len(@))]
             IN  showNotification(render(c3), "success")
        ELSE c1

deleteTask(c, taskId, now, outcome) ==
    LET c1 == saveState(c)
        taskIndex == findIndex(c1.app.tasks, taskId)
    IN  IF taskIndex # 0
        THEN LET c2 == [c1 EXCEPT !.app.tasks =
                           SubSeq(@, 1, taskIndex - 1) \o SubSeq(@, taskIndex + 1, Len(@))]
             IN  showNotification(render(saveData(c2, now, outcome)), "success")
        ELSE c1

\* editTask(taskId), newText being what prompt() returns
editTask(c, taskId, newText, now, outcome) ==
    LET i == findIndex(c.app.tasks, taskId)
    IN  IF i = 0 THEN c
        ELSE IF newText # null /\ trim(newText) # c.app.tasks[i].text
        THEN LET validation == validateTaskInput(newText,
                                  SelectSeq(c.app.tasks, LAMBDA t : t.id # taskId))
             IN  IF validation.isValid
                 THEN LET c1 == saveState(c)
                          c2 == [c1 EXCEPT !.app.tasks[i].text = validation.cleaned,
                                           !.app.tasks[i].updatedAt = now]
                      IN  showNotification(render(saveData(c2, now, outcome)), "success")
                 ELSE showNotification(c, "error")
        ELSE c

showModal(c, onclick, taskId, completedCount) ==
    [c EXCEPT !.app.modal = [show |-> TRUE, onclick |-> onclick, taskId |-> taskId,
                             completedCount |-> completedCount]]

\* hideModal that leaves modalConfirm.onclick as it is
hideModalKeepsHandler(c) == [c EXCEPT !.app.modal.show = FALSE]

hideModal(c) == [c EXCEPT !.app.modal = NoModal]

confirmDeleteTask(c, taskId) ==
    IF findIndex(c.app.tasks, taskId) = 0 THEN c
    ELSE showModal(c, "deleteTask", taskId, 0)

clearCompletedTasks(c) ==
    LET completedCount == Len(SelectSeq(c.app.tasks, LAMBDA t : t.completed))
    IN  IF completedCount = 0 THEN showNotification(c, "warning")
        ELSE showModal(c, "clearCompleted", 0, completedCount)

\* the confirm callback clearCompletedTasks hands to showModal
\* (a closure: completedCount is the constant of the call that opened the
\* dialog, kept here with the dialog)
clearCompletedConfirmed(c, now, outcome) ==
    LET completedCount == c.app.modal.completedCount
        c1 == saveState(c)
        c2 == [c1 EXCEPT !.app.tasks = SelectSeq(@, LAMBDA t : ~t.completed)]
        c3 == showNotification(render(saveData(c2, now, outcome)), "success")
    IN  [c3 EXCEPT !.counts = Append(@, completedCount)]

\* confirmHandler of showModal: the callback, then hideModal
confirmHandler(c, now, outcome) ==
    LET m == c.app.modal
        c1 == CASE m.onclick = "deleteTask"     -> deleteTask(c, m.taskId, now, outcome)
                [] m.onclick = "clearCompleted" -> clearCompletedConfirmed(c, now, outcome)
                [] OTHER                        -> c
    IN  hideModal(c1)

\* toggleAllTasks with tasks.some in the place of tasks.every
toggleAllTasksSome(c, now, outcome) ==
    LET allCompleted == \E i \in 1..Len(c.app.tasks) : c.app.tasks[i].completed
        c1 == saveState(c)
        c2 == [c1 EXCEPT !.app.tasks =
                  [i \in 1..Len(@) |-> [@[i] EXCEPT !.completed = ~allCompleted,
                                                    !.updatedAt = now]]]
    IN  showNotification(render(saveData(c2, now, outcome)), "success")

toggleAllTasks(c, now, outcome) ==
    LET allCompleted == \A i \in 1..Len(c.app.tasks) : c.app.tasks[i].completed
        c1 == saveState(c)
        c2 == [c1 EXCEPT !.app.tasks =
                  [i \in 1..Len(@) |-> [@[i] EXCEPT !.completed = ~allCompleted,
                                                    !.updatedAt = now]]]
    IN  showNotification(render(saveData(c2, now, outcome)), "success")

setFilter(c, filter) ==
    LET c1 == [c EXCEPT !.app.currentFilter = filter, !.app.settings.filter = filter]
        r == saveSettings(c1.app.settings, c1.ls)
    IN  render([c1 EXCEPT !.ls = r.ls, !.keys = @ \o r.keys])

\* handleTaskSubmit with saveState() called before the input is validated
handleTaskSubmitSavesFirst(c, input, now, random, outcome) ==
    LET validation == validateTaskInput(input, c.app.tasks)
        c1 == saveState(c)
    IN  IF ~validation.isValid THEN showNotification(c1, "error")
        ELSE addTask(c, createTask(validation.cleaned, now, random), now, outcome)

handleTaskSubmit(c, input, now, random, outcome) ==
    LET validation == validateTaskInput(input, c.app.tasks)
    IN  IF ~validation.isValid THEN showNotification(c, "error")
        ELSE addTask(c, createTask(validation.cleaned, now, random), now, outcome)

\* i: the position in the rendered list of the element the event came from
handleTaskListChange(c, i, now, outcome) ==
    toggleTask(c, parseInt(c.app.taskList[i].id), now, outcome)

handleTaskListClick(c, i, button, newText, now, outcome) ==
    LET taskId == parseInt(c.app.taskList[i].id)
    IN  CASE button = "delete-btn" -> confirmDeleteTask(c, taskId)
          [] button = "edit-btn"   -> editTask(c, taskId, newText, now, outcome)
          [] OTHER                 -> c

\* handleStorageChange without the then(render) after loadAppData
handleStorageChangeNoRender(c, key, now) ==
    IF key = "taskflow_tasks" THEN loadAppData(c, now) ELSE c

\* handleStorageChange that renders again without loading the data
handleStorageChangeNoReload(c, key, now) ==
    IF key = "taskflow_tasks"
    THEN [c EXCEPT !.app.microtasks = Append(@, "render")]
    ELSE c

\* handleStorageChange without the test of e.key
handleStorageChangeAnyKey(c, key, now) ==
    [loadAppData(c, now) EXCEPT !.app.microtasks = Append(@, "render")]

\* handleStorageChange(e): loadAppData runs at once, render as a microtask
handleStorageChange(c, key, now) ==
    IF key = "taskflow_tasks"
    THEN [loadAppData(c, now) EXCEPT !.app.microtasks = Append(@, "render")]
    ELSE c

\* initializeTheme(): the data-theme attribute of the document element
initializeTheme(c) == [c EXCEPT !.app.dataTheme = c.app.settings.theme]

toggleTheme(c) ==
    LET newTheme == IF c.app.settings.theme = "light" THEN "dark" ELSE "light"
        c1 == [c EXCEPT !.app.settings.theme = newTheme, !.app.dataTheme = newTheme]
        r == saveSettings(c1.app.settings, c1.ls)
    IN  showNotification([c1 EXCEPT !.ls = r.ls, !.keys = @ \o r.keys], "success")

\* init(): the data is loaded, the listeners are attached, the theme is
\* applied, the view rendered
init(c, now) ==
    [render(initializeTheme(loadAppData(c, now))) EXCEPT !.app.isInitialized = TRUE]

\* cleanup(), the beforeunload handler
cleanup(c, now, outcome) ==
    LET c1 == saveData(c, now, outcome)
        r == saveSettings(c1.app.settings, c1.ls)
    IN  [c1 EXCEPT !.ls = r.ls, !.keys = @ \o r.keys]

(***************************** the state machine ****************************)
VARIABLES
    apps,          \* tab -> its TaskFlowApp object
    localStorage,  \* the origin's localStorage: tasks, meta and settings keys
    events,        \* tab -> storage events dispatched to it and not yet handled
    now,           \* the clock, in milliseconds
    origin,        \* what localStorage held when the pages were opened
    last,          \* the handler that ran last, its arguments and what it did
    run,           \* the mutations and the undos made since the pages were opened
    worker         \* the service worker, the caches of the origin and the network

vars == <<apps, localStorage, events, now, origin, last, run, worker>>

Long == [i \in 1..(maxLength + 1) |-> 97]

\* texts typed into the form or into the edit prompt:
\* '', '  ', 'a', 'A', 'b', '<', 201 times 'a', a euro sign
Inputs == {<<>>, <<32, 32>>, <<97>>, <<65>>, <<98>>, <<60>>, Long, <<8364>>}

Randoms == 0..(FracDen - 1)

Filters == {"all", "active", "completed"}

\* An environment: the texts a user types, the values Math.random() returns
\* and what localStorage.setItem does.
Env(inputs, randoms, outcomes) ==
    [inputs |-> inputs, randoms |-> randoms, outcomes |-> outcomes]

\* records written by an earlier version: [{"text":"c"},{"text":"d"}]
LegacyRecord(text) ==
    [id |-> undefinedNum, text |-> text, completed |-> FALSE,
     createdAt |-> undefinedNum, updatedAt |-> undefinedNum]

LegacyItems == JsonArray(<<LegacyRecord(<<99>>), LegacyRecord(<<100>>)>>)

\* a task an earlier session created at millisecond 0, completed and wrote
StoredItems ==
    JsonArray(<<[id |-> 1, text |-> <<99>>, completed |-> TRUE,
                 createdAt |-> 0, updatedAt |-> 0]>>)

\* two tasks an earlier session created and wrote, the first one completed
PairItems ==
    JsonArray(<<[id |-> 1, text |-> <<99>>, completed |-> TRUE,
                 createdAt |-> 0, updatedAt |-> 0],
                [id |-> 2, text |-> <<100>>, completed |-> FALSE,
                 createdAt |-> 0, updatedAt |-> 0]>>)

\* a record that carries updatedAt and no createdAt
UpdatedOnlyItems ==
    JsonArray(<<[id |-> 1, text |-> <<99>>, completed |-> FALSE,
                 createdAt |-> undefinedNum, updatedAt |-> 0]>>)

EmptyStorage == [tasks |-> NoItem, meta |-> NoMeta, settings |-> NoSettings]

\* what localStorage holds when the pages are opened
OriginStorage(o) ==
    [EmptyStorage EXCEPT !.tasks =
        CASE o = "legacy"      -> LegacyItems
          [] o = "stored"      -> StoredItems
          [] o = "pair"        -> PairItems
          [] o = "updatedOnly" -> UpdatedOnlyItems
          [] o = "notJson"     -> NotJson
          [] o = "value"       -> JsonValue
          [] o = "nulls"       -> JsonArray(<<JsonNull>>)
          [] o = "primitives"  -> JsonArray(<<JsonPrimitive, JsonPrimitive>>)
          [] OTHER             -> NoItem]

(***************************** the service worker ***************************)
CACHE_NAME == "taskflow-lite-v1.0.0"

STATIC_CACHE_URLS ==
    {"/", "/index.html", "/app.js", "/styles/main.css", "/styles/utilities.css",
     "/modules/storage.js", "/modules/render.js", "/modules/validation.js",
     "https://fonts.googleapis.com/css2"}

\* the cache an earlier version of the worker filled
OldCacheName == "taskflow-lite-v0.9.0"

\* a worker that was registered and has not been installed; caches is the
\* set of the pairs <<cache name, URL>> with a stored response
NoWorker ==
    [phase |-> "parsed", caches |-> {}, online |-> TRUE,
     fetched |-> [url |-> "", method |-> "", online |-> TRUE, response |-> "none",
                  intercepted |-> FALSE, asked |-> FALSE]]

NoLast == [tab |-> 0, op |-> "new", id |-> 0, input |-> <<>>, key |-> "",
           before |-> <<>>, notes |-> <<>>, counts |-> <<>>, calls |-> <<>>,
           saved |-> <<>>, saves |-> <<>>, out |-> <<>>]

InitTabs(tabs, origins) ==
    /\ now = 1
    /\ origin \in origins
    /\ localStorage = OriginStorage(origin)
    /\ apps = [t \in tabs |-> NewApp]
    /\ events = [t \in tabs |-> <<>>]
    /\ last = NoLast
    /\ run = [plain |-> TRUE, n |-> 0, k |-> 0]
    /\ worker = NoWorker

\* the listeners of the tab are attached and no callback of it is waiting in
\* its microtask queue
Idle(t) == apps[t].isInitialized /\ apps[t].microtasks = <<>>

\* the history of a page that is "worn": toggleTask was called 49 times with
\* an id no task has, on the empty collection (each call pushes a snapshot)
WornHistory == [i \in 1..(maxHistory - 1) |-> JSONstringify(<<>>)]

\* a worn page may push until MaxHist of its entries are other snapshots
Bounded(c) ==
    /\ Len(c.app.tasks) <= MaxTasks
    /\ IF origin = "worn"
       THEN \A i \in 1..(Len(c.app.history) - MaxHist) :
               c.app.history[i] = JSONstringify(<<>>)
       ELSE Len(c.app.history) <= MaxHist

\* the methods that change the collection when they take effect
Mutations == {"handleTaskSubmit", "toggleTask", "handleTaskListChange", "editTask",
              "clickEdit", "deleteTask", "confirmDelete", "confirmClear",
              "toggleAllTasks"}

\* run counts n mutations that took effect followed by k calls of undo, and is
\* plain as long as nothing else touched the collection or the history
NotPlain == [plain |-> FALSE, n |-> 0, k |-> 0]

Count(t, op, c) ==
    IF op \in Mutations /\ c.saves # <<>>
    THEN IF run.k = 0 THEN [run EXCEPT !.n = @ + 1] ELSE NotPlain
    ELSE IF op = "undo"
    THEN IF run.k < run.n THEN [run EXCEPT !.k = @ + 1] ELSE NotPlain
    ELSE IF op # "init" /\ (c.app.history # apps[t].history \/ c.app.tasks # apps[t].tasks)
    THEN NotPlain
    ELSE run

\* the tabs a write of tab t is announced to
Listening(t) == {u \in DOMAIN apps \ {t} : apps[u].isInitialized}

\* handler op of tab t has run and left context c, the queues of the tabs
\* being evs before its writes are announced; what setItem would have done is
\* part of the step only when the handler called saveTasks
DoWith(t, op, id, input, key, outcome, c, evs) ==
    /\ outcome = "ok" \/ c.saves # <<>>
    /\ Bounded(c)
    /\ \A u \in Listening(t) : Len(evs[u]) + Len(c.keys) <= MaxEvents
    /\ apps' = [apps EXCEPT ![t] = c.app]
    /\ localStorage' = c.ls
    /\ events' = [u \in DOMAIN apps |->
                     IF u \in Listening(t) THEN evs[u] \o c.keys ELSE evs[u]]
    /\ last' = [tab |-> t, op |-> op, id |-> id, input |-> input, key |-> key,
                before |-> apps[t].tasks, notes |-> c.notes, counts |-> c.counts,
                calls |-> c.calls, saved |-> c.saved, saves |-> c.saves,
                out |-> c.out]
    /\ run' = IF run.plain THEN Count(t, op, c) ELSE run
    /\ UNCHANGED <<now, origin, worker>>

Do(t, op, id, input, outcome, c) == DoWith(t, op, id, input, "", outcome, c, events)

Ctx(t) == Context(apps[t], localStorage)

\* the id the data-id attribute of a rendered element shows
ShownId(el) == el.id.int * FracDen + el.id.frac

\* DOMContentLoaded: init() runs on the object the constructor built
Initialize(t) ==
    /\ ~apps[t].isInitialized
    /\ Do(t, "init", 0, <<>>, "ok", init(Ctx(t), now))

HandleTaskSubmit(t, e) ==
    /\ Idle(t)
    /\ \E input \in e.inputs, random \in e.randoms, outcome \in e.outcomes :
          Do(t, "handleTaskSubmit", 0, input, outcome,
             handleTaskSubmit(Ctx(t), input, now, random, outcome))

HandleTaskListChange(t, e) ==
    /\ Idle(t)
    /\ \E i \in 1..Len(apps[t].taskList), outcome \in e.outcomes :
          Do(t, "handleTaskListChange", ShownId(apps[t].taskList[i]), <<>>, outcome,
             handleTaskListChange(Ctx(t), i, now, outcome))

HandleDeleteClick(t, e) ==
    /\ Idle(t)
    /\ \E i \in 1..Len(apps[t].taskList), outcome \in e.outcomes :
          Do(t, "clickDelete", ShownId(apps[t].taskList[i]), <<>>, outcome,
             handleTaskListClick(Ctx(t), i, "delete-btn", null, now, outcome))

HandleEditClick(t, e) ==
    /\ Idle(t)
    /\ \E i \in 1..Len(apps[t].taskList), newText \in e.inputs \cup {null},
          outcome \in e.outcomes :
          Do(t, "clickEdit", ShownId(apps[t].taskList[i]), newText, outcome,
             handleTaskListClick(Ctx(t), i, "edit-btn", newText, now, outcome))

ModalConfirm(t, e) ==
    /\ Idle(t)
    /\ apps[t].modal.onclick # "null"
    /\ \E outcome \in e.outcomes :
          Do(t, IF apps[t].modal.onclick = "deleteTask" THEN "confirmDelete"
                ELSE "confirmClear", apps[t].modal.taskId, <<>>, outcome,
             confirmHandler(Ctx(t), now, outcome))

HideModal(t) ==
    /\ Idle(t)
    /\ apps[t].modal.show
    /\ Do(t, "hideModal", 0, <<>>, "ok", hideModal(Ctx(t)))

ClearCompletedTasks(t) ==
    /\ Idle(t)
    /\ Do(t, "clearCompletedTasks", 0, <<>>, "ok", clearCompletedTasks(Ctx(t)))

ToggleAllTasks(t, e) ==
    /\ Idle(t)
    /\ \E outcome \in e.outcomes :
          Do(t, "toggleAllTasks", 0, <<>>, outcome, toggleAllTasks(Ctx(t), now, outcome))

HandleFilterChange(t) ==
    /\ Idle(t)
    /\ \E filter \in Filters :
          Do(t, "setFilter", 0, <<>>, "ok", setFilter(Ctx(t), filter))

\* ids a caller of the methods may pass: those of the tasks, and one no task
\* has; the edit prompt is opened for a task of the collection
Ids(t) == {apps[t].tasks[i].id : i \in 1..Len(apps[t].tasks)} \cup {0}

ToggleTask(t, e) ==
    /\ Idle(t)
    /\ \E taskId \in Ids(t), outcome \in e.outcomes :
          Do(t, "toggleTask", taskId, <<>>, outcome, toggleTask(Ctx(t), taskId, now, outcome))

DeleteTask(t, e) ==
    /\ Idle(t)
    /\ \E taskId \in Ids(t), outcome \in e.outcomes :
          Do(t, "deleteTask", taskId, <<>>, outcome, deleteTask(Ctx(t), taskId, now, outcome))

EditTask(t, e) ==
    /\ Idle(t)
    /\ \E taskId \in Ids(t) \ {0}, newText \in e.inputs \cup {null},
          outcome \in e.outcomes :
          Do(t, "editTask", taskId, newText, outcome,
             editTask(Ctx(t), taskId, newText, now, outcome))

Undo(t, e) ==
    /\ Idle(t)
    /\ \E outcome \in e.outcomes :
          Do(t, "undo", 0, <<>>, outcome, undo(Ctx(t), now, outcome))

Tick ==
    /\ now < MaxClock
    /\ now' = now + 1
    /\ UNCHANGED <<apps, localStorage, events, origin, last, run, worker>>

\* the tab takes the oldest storage event of its queue
HandleStorageChange(t) ==
    /\ Idle(t)
    /\ events[t] # <<>>
    /\ DoWith(t, "handleStorageChange", 0, <<>>, Head(events[t]), "ok",
              handleStorageChange(Ctx(t), Head(events[t]), now),
              [events EXCEPT ![t] = Tail(@)])

\* the tab runs the oldest callback of its microtask queue: a render
RunMicrotask(t) ==
    /\ apps[t].microtasks # <<>>
    /\ Do(t, "runMicrotask", 0, <<>>, "ok",
          render([Ctx(t) EXCEPT !.app.microtasks = Tail(@)]))

(***************************************************************************)
(* Spec: one tab and the methods of the task store, called with the ids of *)
(* the tasks or with an id no task has; setItem may raise on either key.   *)
(* The page finds no tasks in storage, or the task of an earlier session.  *)
(* One text is typed and Math.random() returns 0: the ids differ by the    *)
(* millisecond.                                                            *)
(***************************************************************************)
StoreEnv == Env({<<97>>}, {0}, SaveOutcomes)

Init == InitTabs({1}, {"empty", "stored"})

Next ==
    \/ Tick
    \/ Initialize(1)
    \/ HandleTaskSubmit(1, StoreEnv)
    \/ ToggleTask(1, StoreEnv)
    \/ DeleteTask(1, StoreEnv)
    \/ EditTask(1, StoreEnv)
    \/ ClearCompletedTasks(1)
    \/ ModalConfirm(1, StoreEnv)
    \/ HideModal(1)
    \/ ToggleAllTasks(1, StoreEnv)
    \/ Undo(1, StoreEnv)

Spec == Init /\ [][Next]_vars

(***************************************************************************)
(* SpecStore: Spec, where the only write that may fail is the setItem of    *)
(* the tasks key.                                                           *)
(***************************************************************************)
WriteEnv == Env({<<97>>}, {0}, {"ok", "quotaTasks"})

NextStore ==
    \/ Tick
    \/ Initialize(1)
    \/ HandleTaskSubmit(1, WriteEnv)
    \/ ToggleTask(1, WriteEnv)
    \/ DeleteTask(1, WriteEnv)
    \/ EditTask(1, WriteEnv)
    \/ ClearCompletedTasks(1)
    \/ ModalConfirm(1, WriteEnv)
    \/ HideModal(1)
    \/ ToggleAllTasks(1, WriteEnv)
    \/ Undo(1, WriteEnv)

SpecStore == Init /\ [][NextStore]_vars

(***************************************************************************)
(* SpecForm: one tab, the form and the edit prompt with every text of       *)
(* Inputs; every write succeeds and Math.random() returns 0.                *)
(***************************************************************************)
FormEnv == Env(Inputs, {0}, {"ok"})

InitEmpty == InitTabs({1}, {"empty"})

NextForm ==
    \/ Tick
    \/ Initialize(1)
    \/ HandleTaskSubmit(1, FormEnv)
    \/ EditTask(1, FormEnv)

SpecForm == InitEmpty /\ [][NextForm]_vars

(***************************************************************************)
(* SpecView: one tab driven through the rendered list: the checkbox, the    *)
(* edit and delete buttons, the dialog and the filter buttons.              *)
(***************************************************************************)
ViewEnv == Env({<<97>>, <<98>>}, Randoms, {"ok"})

NextView ==
    \/ Tick
    \/ Initialize(1)
    \/ HandleTaskSubmit(1, ViewEnv)
    \/ HandleTaskListChange(1, ViewEnv)
    \/ HandleDeleteClick(1, ViewEnv)
    \/ HandleEditClick(1, ViewEnv)
    \/ ModalConfirm(1, ViewEnv)
    \/ HideModal(1)
    \/ HandleFilterChange(1)

SpecView == InitEmpty /\ [][NextView]_vars

(***************************************************************************)
(* SpecLegacy: Spec, on a page that may find legacy records in storage.     *)
(***************************************************************************)
InitLegacy == InitTabs({1}, {"empty", "stored", "legacy"})

SpecLegacy == InitLegacy /\ [][Next]_vars

(***************************************************************************)
(* SpecEdit: the form and the edit prompt, on a page that may find legacy   *)
(* records in storage; the texts typed are 'a', 'A' and the text 'd' of a   *)
(* legacy record.                                                           *)
(***************************************************************************)
EditEnv == Env({<<97>>, <<65>>, <<100>>}, {0}, {"ok"})

NextEdit ==
    \/ Tick
    \/ Initialize(1)
    \/ HandleTaskSubmit(1, EditEnv)
    \/ EditTask(1, EditEnv)

SpecEdit == InitLegacy /\ [][NextEdit]_vars

(***************************************************************************)
(* SpecGateway: one tab opened on any content of the tasks key, and direct  *)
(* calls of the storage gateway with task arrays that pass saveTasks'       *)
(* filter; every write succeeds.                                            *)
(***************************************************************************)
GatewayOrigins ==
    {"empty", "stored", "legacy", "updatedOnly", "notJson", "value", "nulls", "primitives"}

\* tasks whose id is a number, text a string and completed a boolean
GatewayTasks ==
    [id : {0, 1 + FracDen}, text : {<<>>, <<97>>}, completed : BOOLEAN,
     createdAt : {1}, updatedAt : {1}]

\* the lists of at most two such tasks, the two differing in every field
GatewayLists ==
    {<<>>} \cup {<<x>> : x \in GatewayTasks}
           \cup {p \in GatewayTasks \X GatewayTasks :
                    /\ p[1].id # p[2].id /\ p[1].text # p[2].text
                    /\ p[1].completed /\ ~p[2].completed}

InitGateway == InitTabs({1}, GatewayOrigins)

\* a direct call of the gateway with one of lists, in the page of tab t
ImportFrom(t, lists) ==
    \E tasks \in lists :
          Do(t, "importTasks", 0, <<>>, "ok",
             LET r == importTasks(localStorage, tasks, now, "ok")
             IN  [Ctx(t) EXCEPT !.ls = r.ls, !.keys = r.keys, !.saves = <<r.ok>>,
                                !.saved = <<tasks>>, !.calls = <<"saveTasks">>])

ImportTasks(t) ==
    /\ t \in DOMAIN apps
    /\ ImportFrom(t, GatewayLists)

NextGateway ==
    \/ Tick
    \/ Initialize(1)
    \/ ImportTasks(1)

SpecGateway == InitGateway /\ [][NextGateway]_vars

(***************************************************************************)
(* SpecTabs: two tabs on one localStorage; a write of one tab is announced  *)
(* to the other by a storage event per changed key.  Both tabs create      *)
(* tasks; tab 1 also toggles them.                                          *)
(***************************************************************************)
Tabs == {1, 2}

TabsEnv == Env({<<97>>}, Randoms, {"ok"})

InitOfTabs == InitTabs(Tabs, {"empty"})

NextTabs ==
    \/ Tick
    \/ ToggleTask(1, TabsEnv)
    \/ \E t \in Tabs :
          \/ Initialize(t)
          \/ HandleTaskSubmit(t, TabsEnv)
          \/ HandleStorageChange(t)
          \/ RunMicrotask(t)

SpecTabs == InitOfTabs /\ [][NextTabs]_vars

(***************************************************************************)
(* SpecProject: tab 1 is opened on the task of an earlier session, toggles  *)
(* all tasks, presses the filter buttons and calls undo; the page of tab 2  *)
(* writes, through the storage gateway, that task as not completed or no    *)
(* task, which tab 1 learns by storage events.                              *)
(***************************************************************************)
ProjectEnv == Env({<<97>>}, {0}, {"ok"})

ProjectLists == {<<>>, <<[StoredItems.items[1] EXCEPT !.completed = FALSE]>>}

InitProject == InitTabs(Tabs, {"stored"})

ImportProject(t) ==
    /\ t \in DOMAIN apps
    /\ ImportFrom(t, ProjectLists)

NextProject ==
    \/ Initialize(1)
    \/ ToggleAllTasks(1, ProjectEnv)
    \/ HandleFilterChange(1)
    \/ Undo(1, ProjectEnv)
    \/ ImportProject(2)
    \/ HandleStorageChange(1)
    \/ RunMicrotask(1)

SpecProject == InitProject /\ [][NextProject]_vars

(***************************************************************************)
(* SpecSync: two tabs opened on the task of an earlier session.  Tab 1      *)
(* opens the dialog of "clear completed" and answers it; tab 2 toggles the  *)
(* task and toggles all, which tab 1 learns by storage events.              *)
(***************************************************************************)
SyncEnv == Env({<<97>>}, {0}, {"ok"})

InitSync == InitTabs(Tabs, {"stored"})

NextSync ==
    \/ Tick
    \/ ClearCompletedTasks(1)
    \/ ModalConfirm(1, SyncEnv)
    \/ HideModal(1)
    \/ ToggleTask(2, SyncEnv)
    \/ ToggleAllTasks(2, SyncEnv)
    \/ \E t \in Tabs :
          \/ Initialize(t)
          \/ HandleStorageChange(t)
          \/ RunMicrotask(t)

SpecSync == InitSync /\ [][NextSync]_vars

(***************************************************************************)
(* SpecFilter: one tab opened on the two tasks of an earlier session, or    *)
(* on empty storage; tasks are toggled and deleted and the filter buttons   *)
(* pressed.                                                                 *)
(***************************************************************************)
FilterEnv == Env({<<97>>}, {0}, {"ok"})

InitFilter == InitTabs({1}, {"empty", "pair"})

NextFilter ==
    \/ Tick
    \/ Initialize(1)
    \/ ToggleTask(1, FilterEnv)
    \/ DeleteTask(1, FilterEnv)
    \/ HandleFilterChange(1)

SpecFilter == InitFilter /\ [][NextFilter]_vars

(***************************************************************************)
(* SpecSanitize: one tab whose form is submitted, and direct calls of       *)
(* validateTaskInput(sanitizeInput(s), tasks) for texts s with white space, *)
(* angle brackets and more than maxLength characters.                       *)
(***************************************************************************)
\* 'a', ' a ', 'a <', '< a', 'a<b', 'a' TAB 'b', '<', '  ', and 199 times 'a'
\* followed by ' b'
SanitizeInputs ==
    {<<97>>, <<32, 97, 32>>, <<97, 32, 60>>, <<60, 32, 97>>, <<97, 60, 98>>,
     <<97, 9, 98>>, <<60>>, <<32, 32>>,
     [i \in 1..(maxLength - 1) |-> 97] \o <<32, 98>>}

SanitizeEnv == Env({<<97>>, <<98>>}, {0}, {"ok"})

\* a direct call in the page of tab t; out is result.cleaned
ValidateSanitized(t) ==
    /\ Idle(t)
    /\ \E s \in SanitizeInputs :
          Do(t, "validateTaskInput", 0, s, "ok",
             [Ctx(t) EXCEPT
                 !.out = validateTaskInput(sanitizeInput(s), apps[t].tasks).cleaned])

NextSanitize ==
    \/ Tick
    \/ Initialize(1)
    \/ HandleTaskSubmit(1, SanitizeEnv)
    \/ ValidateSanitized(1)

SpecSanitize == InitEmpty /\ [][NextSanitize]_vars

(***************************************************************************)
(* SpecWorn: one tab, a fresh page or a worn one whose history is one       *)
(* snapshot short of its capacity; tasks are created, toggled and deleted,  *)
(* and undo is called.                                                      *)
(***************************************************************************)
WornEnv == Env({<<97>>}, {0}, {"ok"})

\* the worn page: init() on empty storage, then the 49 calls of toggleTask
WornApp ==
    [init(Context(NewApp, EmptyStorage), 1).app EXCEPT
        !.history = WornHistory, !.historyIndex = Len(WornHistory) - 1]

InitWorn ==
    \/ InitEmpty
    \/ /\ now = 1
       /\ origin = "worn"
       /\ localStorage = EmptyStorage
       /\ apps = <<WornApp>>
       /\ events = <<<<>>>>
       /\ last = [NoLast EXCEPT !.tab = 1, !.op = "toggleTask"]
       /\ run = NotPlain
       /\ worker = NoWorker

NextWorn ==
    \/ Tick
    \/ Initialize(1)
    \/ HandleTaskSubmit(1, WornEnv)
    \/ ToggleTask(1, WornEnv)
    \/ DeleteTask(1, WornEnv)
    \/ Undo(1, WornEnv)

SpecWorn == InitWorn /\ [][NextWorn]_vars

(***************************** properties ***********************************)
\* the step is a run of handler op (every step but Tick is a handler's)
Ran(op) == last'.op = op /\ now' = now

TaskIds(tasks) == {tasks[i].id : i \in 1..Len(tasks)}

\* the operations that write the collection through saveData
Writers == Mutations \cup {"undo"}

\* C1: after a mutating operation in which saveTasks returned true, what
\* loadTasks() returns is the in-memory collection of the tab: the same tasks
\* with the same field values in the same order.
C1_PersistedEqualsMemory ==
    (last.op \in Writers /\ last.saves = <<TRUE>>)
        => loadTasks(localStorage, now) = apps[last.tab].tasks

\* a second task was created and written
C1_Witness ==
    /\ last.op = "handleTaskSubmit" /\ last.saves = <<TRUE>>
    /\ Len(apps[1].tasks) = 2
    /\ localStorage.tasks = JsonArray(apps[1].tasks)

\* C2: one undo() after a mutating operation that changed the collection
\* restores the collection as it was before that operation, writes it to
\* storage and adds no history entry.
C2_UndoRestoresPrevious ==
    [][(/\ Ran("undo")
        /\ last.op \in Mutations
        /\ last.tab = last'.tab
        /\ apps[last.tab].tasks # last.before)
       => (/\ apps'[last.tab].tasks = last.before
           /\ last'.saves # <<>>
           /\ (last'.saves = <<TRUE>> => localStorage'.tasks = JsonArray(last.before))
           /\ apps'[last.tab].history = apps[last.tab].history)]_vars

\* C3: n mutating operations from the collection the page started with, and
\* then n calls of undo(), leave that collection in memory.
C3_UndoAllRestoresStart ==
    (run.plain /\ run.n >= 1 /\ run.k = run.n /\ run.n <= maxHistory)
        => apps[1].tasks = loadTasks(OriginStorage(origin), 1)

\* C8: toggleTask(id) and deleteTask(id) with an id no task has change
\* neither the collection, nor the history, nor historyIndex, nor storage.
C8_AbsentIdIsNoOp ==
    [][((Ran("toggleTask") \/ Ran("deleteTask"))
        /\ last'.id \notin TaskIds(apps[last'.tab].tasks))
       => (/\ apps'[last'.tab].tasks = apps[last'.tab].tasks
           /\ apps'[last'.tab].history = apps[last'.tab].history
           /\ apps'[last'.tab].historyIndex = apps[last'.tab].historyIndex
           /\ localStorage' = localStorage)]_vars

\* C9: when the write of a mutating operation fails, the mutation stays in
\* memory, the history entry pushed for it stays, the view shows the mutated
\* collection, a failure notification is raised and saveTasks is not called
\* again.
C9_FailedWriteKeepsMutation ==
    (last.op \in Mutations /\ last.saves # <<>> /\ ~last.saves[1])
        => LET app == apps[last.tab]
           IN  /\ last.op = "handleTaskSubmit"
                     => Len(app.tasks) = Len(last.before) + 1
                        /\ Tail(app.tasks) = last.before
               /\ last.op \in {"deleteTask", "confirmDelete"}
                     => Len(app.tasks) = Len(last.before) - 1
               /\ last.op \in {"toggleTask", "handleTaskListChange"}
                     => \E i \in 1..Len(app.tasks) :
                           /\ app.tasks[i].id = last.id
                           /\ app.tasks[i].completed = ~last.before[i].completed
               /\ last.op \in {"editTask", "clickEdit"}
                     => \E i \in 1..Len(app.tasks) :
                           /\ app.tasks[i].id = last.id
                           /\ app.tasks[i].text = sanitizeInput(last.input)
                           /\ app.tasks[i].text # last.before[i].text
               /\ last.op = "confirmClear"
                     => app.tasks = SelectSeq(last.before, LAMBDA t : ~t.completed)
               /\ last.op = "toggleAllTasks"
                     => /\ Len(app.tasks) = Len(last.before)
                        /\ \A i \in 1..Len(app.tasks) :
                              app.tasks[i].completed
                                 = ~(\A j \in 1..Len(last.before) :
                                        last.before[j].completed)
               /\ app.history # <<>>
               /\ app.history[Len(app.history)] = JSONstringify(last.before)
               /\ app.historyIndex = Len(app.history) - 1
               /\ app.taskList = renderTaskList(app.tasks, app.currentFilter)
               /\ app.counters = updateTaskCounters(app.tasks)
               /\ \E i \in 1..Len(last.notes) : last.notes[i] = "error"
               /\ Len(last.saves) = 1

\* a create whose write failed: the task is in memory and not in storage
C9_Witness ==
    /\ last.op = "handleTaskSubmit" /\ last.saves = <<FALSE>>
    /\ Len(apps[1].tasks) = Len(last.before) + 1
    /\ loadTasks(localStorage, now) # apps[1].tasks

\* C4: a change or click event on a rendered element reaches the task the
\* element shows: the id parsed back from data-id is the task's id.
C4_ParsedIdIsTaskId ==
    \A i \in 1..Len(apps[1].taskList) :
        parseInt(apps[1].taskList[i].id)
            = filterTasks(apps[1].tasks, apps[1].currentFilter)[i].id

\* C5: from an empty store, creates and edits leave only tasks whose text is
\* non-empty after trimming and at most 200 characters long.
C5_TextWithinBounds ==
    origin = "empty" =>
        \A i \in 1..Len(apps[1].tasks) :
            /\ trim(apps[1].tasks[i].text) # <<>>
            /\ Len(apps[1].tasks[i].text) <= maxLength

\* C6: no two tasks of a collection share an id.
C6_UniqueIds ==
    \A t \in DOMAIN apps :
        \A i, j \in 1..Len(apps[t].tasks) :
            i # j => apps[t].tasks[i].id # apps[t].tasks[j].id

\* the inputs C7 names: empty or only white space, more than 200 characters,
\* a character outside the allowed set, the text of an existing task up to case
C7_Fails(input, tasks) ==
    \/ trim(input) = <<>>
    \/ Len(trim(input)) > maxLength
    \/ \E i \in 1..Len(input) : input[i] \notin AllowedChars
    \/ \E i \in 1..Len(tasks) :
          toLowerCase(trim(tasks[i].text)) = toLowerCase(trim(input))

C10_StorageEventReloads ==
    [][/\ Ran("handleStorageChange") =>
            LET t == last'.tab
            IN  IF last'.key = "taskflow_tasks"
                THEN /\ apps'[t].tasks = loadTasks(localStorage, now)
                     /\ apps'[t].history = apps[t].history
                     /\ apps'[t].historyIndex = apps[t].historyIndex
                     /\ apps'[t].microtasks = <<"render">>
                     /\ localStorage' = localStorage
                ELSE apps'[t] = apps[t] /\ localStorage' = localStorage
       /\ Ran("runMicrotask") =>
            LET t == last'.tab
            IN  /\ apps'[t].tasks = apps[t].tasks
                /\ apps'[t].taskList
                      = renderTaskList(apps[t].tasks, apps[t].currentFilter)
                /\ apps'[t].counters = updateTaskCounters(apps[t].tasks)
                /\ apps'[t].microtasks = <<>>]_vars

\* a tab with a history of its own took over the other tab's collection
C10_Witness ==
    /\ last.op = "runMicrotask"
    /\ apps[last.tab].history # <<>>
    /\ apps[last.tab].tasks # <<>>
    /\ JSONstringify(apps[last.tab].tasks) = localStorage.tasks
    /\ \A i \in 1..Len(apps[last.tab].history) :
          apps[last.tab].tasks # JSONparse(apps[last.tab].history[i])
    /\ apps[last.tab].taskList = renderTaskList(apps[last.tab].tasks, "all")

\* the step is a run of a writer that took effect: it changed the collection,
\* or it is one of the operations that always rewrite it, or an undo that
\* moved to an older snapshot
TookEffect ==
    /\ last'.op \in Writers /\ now' = now
    /\ \/ apps'[last'.tab].tasks # apps[last'.tab].tasks
       \/ last'.op \in {"confirmClear", "toggleAllTasks"}
       \/ last'.op = "undo"
             /\ apps'[last'.tab].historyIndex # apps[last'.tab].historyIndex

\* C13: a mutating operation that takes effect calls saveTasks exactly once,
\* with the collection as the operation left it, and renders after that call.
C13_OneWriteAfterMutation ==
    [][TookEffect => /\ last'.calls = <<"saveTasks", "render">>
                     /\ last'.saved = <<apps'[last'.tab].tasks>>
                     /\ Len(last'.saves) = 1]_vars

\* an undo restored an older collection and wrote it
C13_Witness ==
    /\ last.op = "undo"
    /\ apps[1].tasks # last.before
    /\ last.saved = <<apps[1].tasks>>
    /\ last.saves = <<TRUE>>
    /\ localStorage.tasks = JSONstringify(apps[1].tasks)

\* C18: toggleAllTasks() marks every task not completed when all were
\* completed (also when there is none) and completed otherwise; it keeps the
\* tasks, their order and texts, pushes one history entry and calls saveTasks
\* once.
C18_ToggleAll ==
    [][Ran("toggleAllTasks") =>
          LET t == last'.tab
              b == apps[t].tasks
              a == apps'[t].tasks
              allCompleted == \A j \in 1..Len(b) : b[j].completed
          IN  /\ Len(a) = Len(b)
              /\ \A i \in 1..Len(a) :
                    /\ a[i].completed = ~allCompleted
                    /\ a[i].id = b[i].id
                    /\ a[i].text = b[i].text
                    /\ a[i].createdAt = b[i].createdAt
              /\ apps'[t].history = Append(apps[t].history, JSONstringify(b))
              /\ Len(last'.saves) = 1]_vars

\* a completed and an active task were both marked completed
C18_Witness ==
    /\ last.op = "toggleAllTasks"
    /\ Len(last.before) = 2
    /\ \E i, j \in 1..2 : last.before[i].completed /\ ~last.before[j].completed
    /\ \A i \in 1..Len(apps[1].tasks) : apps[1].tasks[i].completed
    /\ Len(apps[1].tasks) = 2

\* C20: toggleTask, editTask, toggleAllTasks and undo never decrease the
\* updatedAt of a task that stays in the collection.
C20_UpdatedAtNeverDecreases ==
    [][(\E op \in {"toggleTask", "editTask", "toggleAllTasks", "undo"} : Ran(op)) =>
          LET b == apps[last'.tab].tasks
              a == apps'[last'.tab].tasks
          IN  \A i \in 1..Len(a), j \in 1..Len(b) :
                 a[i].id = b[j].id => a[i].updatedAt >= b[j].updatedAt]_vars

\* C14: after saveTasks(T) returned true for a list T of tasks whose id is a
\* number, text a string and completed a boolean, loadTasks() returns T.
C14_RoundTrip ==
    (last.op = "importTasks" /\ last.saves = <<TRUE>>)
        => loadTasks(localStorage, now) = last.saved[1]

\* what C15 calls malformed: nothing stored, no JSON, no array, or an array
\* whose elements are null, numbers or strings
C15_Malformed(item) ==
    \/ item.kind # "array"
    \/ \A i \in 1..Len(item.items) : item.items[i] \in {JsonNull, JsonPrimitive}

\* C15: on malformed content of the tasks key loadTasks() returns the empty
\* list: the page that loaded it holds no task.
C15_MalformedLoadsEmpty ==
    (last.op = "init" /\ C15_Malformed(localStorage.tasks))
        => apps[1].tasks = <<>> /\ loadTasks(localStorage, now) = <<>>

\* C19: every task of a collection has updatedAt >= createdAt.
C19_UpdatedNotBeforeCreated ==
    \A t \in DOMAIN apps :
        \A i \in 1..Len(apps[t].tasks) :
            apps[t].tasks[i].updatedAt >= apps[t].tasks[i].createdAt

\* C16: editTask(id, newText) accepts newText exactly when it differs from
\* the task's text and is valid against all the other tasks of the
\* collection; an accepted edit changes the text and updatedAt of that task
\* only and pushes one history entry; any other edit leaves the collection,
\* the history and localStorage as they were
C16_EditValidatesAgainstOthers ==
    [][Ran("editTask") =>
        LET t == last'.tab
            before == apps[t].tasks
            after == apps'[t].tasks
            i == findIndex(before, last'.id)
            others == SubSeq(before, 1, i - 1) \o SubSeq(before, i + 1, Len(before))
            newText == last'.input
            accepted == /\ i # 0
                        /\ newText # null
                        /\ trim(newText) # before[i].text
                        /\ validateTaskInput(newText, others).isValid
        IN  IF accepted
            THEN /\ Len(after) = Len(before)
                 /\ \A j \in 1..Len(before) : j # i => after[j] = before[j]
                 /\ after[i] = [before[i] EXCEPT !.text = trim(newText),
                                                 !.updatedAt = now]
                 /\ Len(apps'[t].history) = Len(apps[t].history) + 1
            ELSE /\ after = before
                 /\ apps'[t].history = apps[t].history
                 /\ localStorage' = localStorage]_vars

\* the tabs are open, no storage event waits in a queue and no render is
\* pending
Quiet ==
    \A t \in DOMAIN apps :
        apps[t].isInitialized /\ events[t] = <<>> /\ apps[t].microtasks = <<>>

\* C12: when every pending storage event has been handled, the collection of
\* each tab is the collection localStorage holds, so all tabs hold the same
\* collection
C12_TabsConverge ==
    Quiet => \A t \in DOMAIN apps : apps[t].tasks = loadTasks(localStorage, now)

\* each tab has created a task in its empty collection, the write of one
\* went over the write of the other, and the last event has been handled
C12_Witness ==
    /\ Quiet
    /\ last.op = "runMicrotask"
    /\ \A t \in Tabs : apps[t].history # <<>> /\ apps[t].history[1].items = <<>>
    /\ Len(localStorage.tasks.items) = 1
    /\ apps[1].tasks = apps[2].tasks

\* C17: the confirm callback of "clear completed" pushes one history entry,
\* leaves the tasks that were not completed, in their order, and no other,
\* and the count it reports is the number of tasks it removed
C17_ClearCompleted ==
    [][Ran("confirmClear") =>
        LET t == last'.tab
            before == apps[t].tasks
            after == apps'[t].tasks
        IN  /\ Len(apps'[t].history) = Len(apps[t].history) + 1
            /\ \A i \in 1..Len(after) : ~after[i].completed
            /\ after = SelectSeq(before, LAMBDA task : ~task.completed)
            /\ last'.counts = <<Len(before) - Len(after)>>]_vars

\* the view of tab t is the projection of its collection
Rendered(t) ==
    /\ apps[t].taskList = renderTaskList(apps[t].tasks, apps[t].currentFilter)
    /\ apps[t].counters = updateTaskCounters(apps[t].tasks)

\* C11: every handler of a tab, a user action or the next storage event,
\* starts when no render of that tab is pending and its view shows its
\* collection: none runs between a reload and the render that follows it
C11_ReloadNotInterleaved ==
    [][(now' = now /\ last'.op \notin {"init", "runMicrotask"}) =>
          apps[last'.tab].microtasks = <<>> /\ Rendered(last'.tab)]_vars

\* tab 2 created a task in its empty collection, a reload replaced it by
\* the task tab 1 had toggled, and after the render the form of tab 2 was
\* submitted
C11_Witness ==
    /\ last.op = "handleTaskSubmit"
    /\ last.tab = 2
    /\ apps[2].history = <<JSONstringify(<<>>)>>
    /\ Len(last.before) = 1
    /\ last.before[1].completed
    /\ apps[2].tasks = last.before

\* the history of tab t holds at most maxHistory snapshots and historyIndex
\* is -1 for the empty history and an index of it otherwise
HistoryInRange(t) ==
    /\ Len(apps[t].history) <= maxHistory
    /\ IF apps[t].history = <<>>
       THEN apps[t].historyIndex = -1
       ELSE apps[t].historyIndex \in 0..(Len(apps[t].history) - 1)

\* the step is a run of a method that calls saveState: toggleTask and
\* deleteTask do for any id, the others before they write the collection
CallsSaveState ==
    /\ now' = now
    /\ \/ last'.op \in {"toggleTask", "deleteTask"}
       \/ last'.op \in Mutations /\ last'.saves # <<>>

\* C21: in every state the history is within its capacity and historyIndex
\* is -1 or an index of it; a call of saveState appends the snapshot of the
\* collection and, at capacity, discards the oldest one
C21_HistoryBounded ==
    /\ [](\A t \in DOMAIN apps : HistoryInRange(t))
    /\ [][CallsSaveState =>
            LET app == apps[last'.tab]
            IN  apps'[last'.tab].history =
                   (IF Len(app.history) = maxHistory THEN Tail(app.history)
                    ELSE app.history) \o <<JSONstringify(app.tasks)>>]_vars

\* the history is at capacity, its newest snapshot is the collection the
\* last handler found, and the snapshot before it is not of the empty
\* collection: two pushes went through, the second at capacity
C21_Witness ==
    /\ Len(apps[1].history) = maxHistory
    /\ last.op \in {"toggleTask", "deleteTask"}
    /\ apps[1].history[maxHistory] = JSONstringify(last.before)
    /\ apps[1].history[maxHistory - 1] # JSONstringify(<<>>)
    /\ apps[1].history[1] = JSONstringify(<<>>)

\* C22: when sanitizeInput(s) is not empty and has at most maxLength
\* characters, validateTaskInput(sanitizeInput(s), tasks).cleaned is
\* sanitizeInput(s)
C22_ValidateKeepsSanitized ==
    (/\ last.op = "validateTaskInput"
     /\ sanitizeInput(last.input) # <<>>
     /\ Len(sanitizeInput(last.input)) <= maxLength)
        => last.out = sanitizeInput(last.input)

\* the tasks of list a, and how often task x is in it
TasksOf(a) == {a[i] : i \in 1..Len(a)}
Occurs(a, x) == Cardinality({i \in 1..Len(a) : a[i] = x})

\* C23: the projections 'active' and 'completed' of a collection have no task
\* in common and hold, together, exactly its tasks; the projection 'all' and
\* the projection under a filter value filterTasks does not know are the
\* collection
C23_FilterPartition ==
    \A t \in DOMAIN apps :
        LET T == apps[t].tasks
            active == filterTasks(T, "active")
            completed == filterTasks(T, "completed")
        IN  /\ TasksOf(active) \cap TasksOf(completed) = {}
            /\ TasksOf(active) \cup TasksOf(completed) = TasksOf(T)
            /\ \A x \in TasksOf(T) : Occurs(active, x) + Occurs(completed, x) = Occurs(T, x)
            /\ filterTasks(T, "all") = T
            /\ filterTasks(T, "newest") = T

\* the list shows the one active task of a collection that also holds a
\* completed one
C23_Witness ==
    /\ apps[1].currentFilter = "active"
    /\ Len(apps[1].tasks) = 2
    /\ Len(apps[1].taskList) = 1
    /\ Len(filterTasks(apps[1].tasks, "completed")) = 1

\* list p holds tasks of list a, in the order they have in a
InOrderOf(p, a) ==
    \E at \in [1..Len(p) -> 1..Len(a)] :
        /\ \A i \in 1..Len(p) : p[i] = a[at[i]]
        /\ \A i, j \in 1..Len(p) : i < j => at[i] < at[j]

C25_ViewIsProjection ==
    \A t \in DOMAIN apps :
        Idle(t) =>
            /\ apps[t].taskList =
                   [i \in 1..Len(filterTasks(apps[t].tasks, apps[t].currentFilter)) |->
                       createTaskHTML(filterTasks(apps[t].tasks, apps[t].currentFilter)[i])]
            /\ apps[t].counters.all = Len(apps[t].tasks)
            /\ apps[t].counters.active =
                   Cardinality({i \in 1..Len(apps[t].tasks) : ~apps[t].tasks[i].completed})
            /\ apps[t].counters.completed =
                   Cardinality({i \in 1..Len(apps[t].tasks) : apps[t].tasks[i].completed})

\* tab 1 had toggled its task and pressed a filter button, a reload then
\* replaced the collection, and the render after it has run: under
\* 'completed' the list is empty and the counters show one active task
C25_Witness ==
    /\ last.op = "runMicrotask"
    /\ last.tab = 1
    /\ apps[1].history # <<>>
    /\ apps[1].currentFilter = "completed"
    /\ Len(apps[1].tasks) = 1
    /\ apps[1].taskList = <<>>
    /\ apps[1].counters = [all |-> 1, active |-> 1, completed |-> 0]

(***************************************************************************)
(* SpecSave: a page calls saveTasks itself, with an argument that is no     *)
(* array or with an array that holds invalid entries, and setItem may       *)
(* raise.                                                                   *)
(***************************************************************************)
SavedFirst  == [id |-> 1 + FracDen, text |-> <<97>>, completed |-> TRUE,
                createdAt |-> 1, updatedAt |-> 1]
SavedSecond == [id |-> 2 * FracDen, text |-> <<98>>, completed |-> FALSE,
                createdAt |-> 1, updatedAt |-> 1]

\* arguments of saveTasks: no array, arrays of tasks, and arrays in which an
\* entry has no numeric id, has no text, is a number or is null
SaveArguments ==
    {notArray, <<>>, <<SavedFirst>>,
     <<[SavedFirst EXCEPT !.id = undefinedNum], SavedSecond>>,
     <<SavedSecond, [SavedFirst EXCEPT !.text = undefinedStr], SavedFirst>>,
     <<SavedFirst, JsonPrimitive>>,
     <<JsonNull, SavedSecond>>}

InitSave == InitTabs({1}, {"empty", "stored"})

SaveTasks(t) ==
    /\ t \in DOMAIN apps
    /\ \E tasks \in SaveArguments, outcome \in SaveOutcomes :
          Do(t, "saveTasks", 0, <<>>, outcome,
             LET r == saveTasks(tasks, localStorage, now, outcome)
             IN  [Ctx(t) EXCEPT !.ls = r.ls, !.keys = r.keys, !.saves = <<r.ok>>,
                                !.saved = <<tasks>>, !.calls = <<"saveTasks">>])

NextSave ==
    \/ Tick
    \/ Initialize(1)
    \/ SaveTasks(1)

SpecSave == InitSave /\ [][NextSave]_vars

\* the entries of an array whose id is a number and whose text is a string
\* (completed is a boolean in every entry of SaveArguments)
TypedEntries(tasks) ==
    SelectSeq(tasks, LAMBDA x : x.id >= 0 /\ \A i \in 1..Len(x.text) : x.text[i] >= 0)

StoredSettings ==
    {NoSettings, NotJsonSettings,
     [present |-> TRUE, theme |-> absentKey, filter |-> absentKey,
      sortBy |-> absentKey, sortOrder |-> absentKey],
     [present |-> TRUE, theme |-> "dark", filter |-> absentKey,
      sortBy |-> absentKey, sortOrder |-> absentKey],
     [present |-> TRUE, theme |-> absentKey, filter |-> "active",
      sortBy |-> absentKey, sortOrder |-> "asc"],
     [present |-> TRUE, theme |-> "dark", filter |-> "completed",
      sortBy |-> absentKey, sortOrder |-> absentKey],
     [present |-> TRUE, theme |-> "light", filter |-> "",
      sortBy |-> "createdAt", sortOrder |-> absentKey],
     [present |-> TRUE, theme |-> "dark", filter |-> "active",
      sortBy |-> "text", sortOrder |-> "asc"]}

InitSettings ==
    /\ now = 1
    /\ origin = "settings"
    /\ localStorage \in {[EmptyStorage EXCEPT !.settings = x] : x \in StoredSettings}
    /\ apps = <<NewApp>>
    /\ events = <<<<>>>>
    /\ last = NoLast
    /\ run = [plain |-> TRUE, n |-> 0, k |-> 0]
    /\ worker = NoWorker

LoadSettings(t) ==
    /\ t \in DOMAIN apps
    /\ Do(t, "loadSettings", 0, <<>>, "ok",
          [Ctx(t) EXCEPT !.out = loadSettings(localStorage)])

NextSettings ==
    \/ Tick
    \/ Initialize(1)
    \/ HandleFilterChange(1)
    \/ LoadSettings(1)

SpecSettings == InitSettings /\ [][NextSettings]_vars

\* C27: loadSettings returns theme light, filter all, sortBy createdAt and
\* sortOrder desc when no settings are stored or the stored text does not
\* parse; for a stored record it returns each stored field, and the default
\* of each field the record lacks
C27_SettingsDefaulted ==
    last.op = "loadSettings" =>
        LET stored == localStorage.settings
            out == last.out
        IN  IF ~stored.present \/ stored = NotJsonSettings
            THEN out = [theme |-> "light", filter |-> "all",
                        sortBy |-> "createdAt", sortOrder |-> "desc"]
            ELSE /\ out.theme = IF stored.theme = absentKey THEN "light"
                                ELSE stored.theme
                 /\ out.filter = IF stored.filter = absentKey THEN "all"
                                 ELSE stored.filter
                 /\ out.sortBy = IF stored.sortBy = absentKey THEN "createdAt"
                                 ELSE stored.sortBy
                 /\ out.sortOrder = IF stored.sortOrder = absentKey THEN "desc"
                                    ELSE stored.sortOrder

\* the stored record holds the theme only: loadSettings returned that theme
\* and the three other defaults
C27_Witness ==
    /\ last.op = "loadSettings"
    /\ localStorage.settings.present
    /\ localStorage.settings.theme = "dark"
    /\ localStorage.settings.filter = absentKey
    /\ last.out = [theme |-> "dark", filter |-> "all",
                   sortBy |-> "createdAt", sortOrder |-> "desc"]

\* C28: a click on the delete button of a listed task and a dismissal of the
\* dialog (cancel button, overlay, Escape: each calls hideModal) leave the
\* collection, the history and localStorage as they were; the task is
\* removed by the confirm handler only, which runs while the dialog is shown,
\* removes one task of the id the dialog was opened for and leaves the
\* dialog hidden and without handler, as every dismissal does
C28_DeleteOnlyConfirmed ==
    [][now' = now =>
        LET t == last'.tab
            before == apps[t]
            after == apps'[t]
        IN  /\ last'.op \in {"clickDelete", "hideModal"} =>
                   /\ after.tasks = before.tasks
                   /\ after.history = before.history
                   /\ after.historyIndex = before.historyIndex
                   /\ localStorage' = localStorage
            /\ last'.op \in {"confirmDelete", "hideModal"} =>
                   /\ before.modal.show
                   /\ ~after.modal.show
                   /\ after.modal.onclick = "null"
            /\ last'.op = "confirmDelete" =>
                   /\ before.modal.onclick = "deleteTask"
                   /\ \E i \in 1..Len(before.tasks) :
                          /\ before.tasks[i].id = before.modal.taskId
                          /\ after.tasks = SubSeq(before.tasks, 1, i - 1) \o
                                 SubSeq(before.tasks, i + 1, Len(before.tasks))
            /\ (last'.op \in {"clickDelete", "hideModal", "confirmDelete"}
                  /\ Len(after.tasks) < Len(before.tasks)) =>
                   last'.op = "confirmDelete"]_vars

\* the dialog of a listed task was confirmed: the task is gone and the
\* dialog is hidden
C28_Witness ==
    /\ last.op = "confirmDelete"
    /\ last.before # <<>>
    /\ last.id \in TaskIds(last.before)
    /\ last.id \notin TaskIds(apps[1].tasks)
    /\ Len(apps[1].tasks) = Len(last.before) - 1
    /\ apps[1].modal = NoModal

\* the handler that ran last rendered, and its render showed 'empty-state'
ShowsEmptyState(l) ==
    /\ \E i \in 1..Len(l.calls) : l.calls[i] = "render"
    /\ ~l.out.hidden

\* C29: when a handler of a tab takes the collection from holding tasks none
\* of which passes the filter to holding none, or back, under one filter,
\* the empty-state message it shows differs from the one shown before
C29_EmptyStatesDiffer ==
    [][(/\ now' = now
        /\ last'.tab = last.tab
        /\ ShowsEmptyState(last)
        /\ ShowsEmptyState(last')
        /\ apps'[last.tab].currentFilter = apps[last.tab].currentFilter
        /\ (apps[last.tab].tasks = <<>>) # (apps'[last.tab].tasks = <<>>))
       => last'.out.message # last.out.message]_vars

(***************************************************************************)
(* SpecWorker: the service worker is installed and activated while single   *)
(* downloads may fail, and then answers the requests of the page, with and  *)
(* without network.                                                         *)
(***************************************************************************)
\* what a page asks for: the static assets, an asset of the origin that is
\* not in STATIC_CACHE_URLS, and a script of another origin
RequestUrls == STATIC_CACHE_URLS \cup {"/manifest.json", "https://cdn.example.com/lib.js"}

SameOrigin(url) == url \notin {"https://fonts.googleapis.com/css2",
                               "https://cdn.example.com/lib.js"}

IsFonts(url) == url = "https://fonts.googleapis.com/css2"

\* requests whose destination is 'document'
IsDocument(url) == url \in {"/", "/index.html"}

\* caches.match(request): a response of any cache of the origin
cachesMatch(caches, url) == \E p \in caches : p[2] = url

\* the install listener; failed are the URLs whose download fails.
\* cache.addAll stores all responses or, when one download fails, none; the
\* catch turns its rejection into a fulfilled promise
install(w, failed) ==
    [w EXCEPT !.phase = "installed",
              !.caches = IF failed = {}
                         THEN @ \cup {<<CACHE_NAME, u>> : u \in STATIC_CACHE_URLS}
                         ELSE @]

\* the activate listener: every cache but CACHE_NAME is deleted
activate(w) ==
    [w EXCEPT !.phase = "activated",
              !.caches = {p \in @ : p[1] = CACHE_NAME}]

\* the fetch listener asking the network first and the cache when that fails
fetchNetworkFirst(w, url, method, status) ==
    LET network == IF w.online THEN "network" ELSE "error"
        handled == method = "GET" /\ (SameOrigin(url) \/ IsFonts(url))
        response ==
            IF ~handled \/ w.online THEN network
            ELSE IF cachesMatch(w.caches, url) THEN "cache"
            ELSE IF IsDocument(url) /\ cachesMatch(w.caches, "/index.html")
                 THEN "cache"
            ELSE "error"
        put == handled /\ w.online /\ status = 200 /\ SameOrigin(url)
    IN  [w EXCEPT !.caches = IF put THEN @ \cup {<<CACHE_NAME, url>>} ELSE @,
                  !.fetched = [url |-> url, method |-> method,
                               online |-> w.online, response |-> response,
                               intercepted |-> handled, asked |-> handled]]

\* the fetch listener; status is what the network answers when it is asked.
\* intercepted: respondWith was called; asked: the listener called fetch
fetch(w, url, method, status) ==
    LET network == IF w.online THEN "network" ELSE "error"
        handled == method = "GET" /\ (SameOrigin(url) \/ IsFonts(url))
        response ==
            IF ~handled THEN network
            ELSE IF cachesMatch(w.caches, url) THEN "cache"
            ELSE IF w.online THEN "network"
            ELSE IF IsDocument(url) /\ cachesMatch(w.caches, "/index.html")
                 THEN "cache"
            ELSE "error"
        put == /\ handled
               /\ ~cachesMatch(w.caches, url)
               /\ w.online
               /\ status = 200
               /\ SameOrigin(url)
    IN  [w EXCEPT !.caches = IF put THEN @ \cup {<<CACHE_NAME, url>>} ELSE @,
                  !.fetched = [url |-> url, method |-> method,
                               online |-> w.online, response |-> response,
                               intercepted |-> handled,
                               asked |-> handled /\ ~cachesMatch(w.caches, url)]]

InitWorker == InitTabs({1}, {"empty"})

Install ==
    /\ worker.phase = "parsed"
    /\ \E failed \in SUBSET STATIC_CACHE_URLS, old \in BOOLEAN :
          /\ worker.online \/ failed = STATIC_CACHE_URLS
          /\ worker' = install([worker EXCEPT !.caches =
                                   IF old THEN {<<OldCacheName, "/index.html">>}
                                   ELSE {}], failed)
    /\ UNCHANGED <<apps, localStorage, events, now, origin, last, run>>

Activate ==
    /\ worker.phase = "installed"
    /\ worker' = activate(worker)
    /\ UNCHANGED <<apps, localStorage, events, now, origin, last, run>>

Fetch ==
    /\ worker.phase = "activated"
    /\ \E url \in RequestUrls, method \in {"GET", "POST"}, status \in {200, 404} :
          worker' = fetch(worker, url, method, status)
    /\ UNCHANGED <<apps, localStorage, events, now, origin, last, run>>

SetNetwork ==
    /\ worker' = [worker EXCEPT !.online = ~@]
    /\ UNCHANGED <<apps, localStorage, events, now, origin, last, run>>

NextWorker ==
    \/ Install
    \/ Activate
    \/ Fetch
    \/ SetNetwork

SpecWorker == InitWorker /\ [][NextWorker]_vars

\* C30: once the install event of the worker has completed, the cache
\* CACHE_NAME holds every URL of STATIC_CACHE_URLS, and a GET of one of them
\* made without network was answered from the cache
C30_InstalledMeansCached ==
    worker.phase \in {"installed", "activated"} =>
        /\ \A u \in STATIC_CACHE_URLS : <<CACHE_NAME, u>> \in worker.caches
        /\ (/\ worker.fetched.url \in STATIC_CACHE_URLS
            /\ worker.fetched.method = "GET"
            /\ ~worker.fetched.online) => worker.fetched.response = "cache"

HistoryEnv == Env({<<97>>}, {0}, {"ok"})

NextHistory ==
    \/ Initialize(1)
    \/ HandleTaskSubmit(1, HistoryEnv)
    \/ ToggleTask(1, HistoryEnv)
    \/ DeleteTask(1, HistoryEnv)
    \/ EditTask(1, HistoryEnv)
    \/ ClearCompletedTasks(1)
    \/ ModalConfirm(1, HistoryEnv)
    \/ HideModal(1)
    \/ ToggleAllTasks(1, HistoryEnv)
    \/ Undo(1, HistoryEnv)
    \/ ImportProject(2)
    \/ HandleStorageChange(1)
    \/ RunMicrotask(1)

SpecHistory == InitProject /\ [][NextHistory]_vars

\* history after saveState ran on history h with the collection tasks
Pushed(h, tasks) ==
    (IF Len(h) = maxHistory THEN Tail(h) ELSE h) \o <<JSONstringify(tasks)>>

\* C32: a create, toggle, edit, delete, clear-completed or toggle-all that
\* changes the collection leaves the history with one more entry, the
\* collection as it was before the call, keeps the older entries and sets
\* historyIndex to the last index; undo and a reload after a storage event
\* leave the history as it was
C32_OneSnapshotPerChange ==
    [][now' = now =>
        LET t == last'.tab
            before == apps[t]
            after == apps'[t]
        IN  /\ (last'.op \in Mutations /\ after.tasks # before.tasks) =>
                   /\ after.history = Pushed(before.history, before.tasks)
                   /\ after.historyIndex = Len(after.history) - 1
            /\ last'.op \in {"undo", "handleStorageChange", "runMicrotask"} =>
                   after.history = before.history
            /\ \A u \in DOMAIN apps \ {t} : apps'[u].history = apps[u].history]_vars

\* the tab toggled its task after an earlier change: the history holds the
\* earlier snapshot and, behind it, the collection as it was before the
\* toggle, which differs from the present one
C32_Witness ==
    /\ last.op = "toggleTask"
    /\ Len(apps[1].history) = 2
    /\ apps[1].history[2] = JSONstringify(last.before)
    /\ apps[1].history[1] # apps[1].history[2]
    /\ apps[1].tasks # last.before
    /\ apps[1].historyIndex = 1

\* C33: toggleTask with the id of a task of the collection flips the flag of
\* that task and sets its updatedAt to the time of the call; its other
\* fields, every other task, the number of tasks and their order stay; the
\* task is in the projection 'completed' afterwards exactly if it was in the
\* projection 'active' before
C33_ToggleFlipsOne ==
    [][(Ran("toggleTask") /\ last'.id \in TaskIds(apps[last'.tab].tasks)) =>
        LET before == apps[last'.tab].tasks
            after == apps'[last'.tab].tasks
            i == CHOOSE k \in 1..Len(before) :
                    /\ before[k].id = last'.id
                    /\ \A j \in 1..(k - 1) : before[j].id # last'.id
        IN  /\ Len(after) = Len(before)
            /\ \A j \in 1..Len(before) : j # i => after[j] = before[j]
            /\ after[i] = [before[i] EXCEPT !.completed = ~before[i].completed,
                                            !.updatedAt = now]
            /\ (\E k \in 1..Len(filterTasks(after, "completed")) :
                    filterTasks(after, "completed")[k] = after[i])
               <=> (\E k \in 1..Len(filterTasks(before, "active")) :
                       filterTasks(before, "active")[k] = before[i])]_vars

\* the second of two tasks was active and has been toggled: it is completed
\* now, later than it was created, and the first task is as it was
C33_Witness ==
    /\ last.op = "toggleTask"
    /\ Len(last.before) = 2
    /\ last.id = last.before[2].id
    /\ ~last.before[2].completed
    /\ Len(apps[1].tasks) = 2
    /\ apps[1].tasks[2].completed
    /\ apps[1].tasks[2].updatedAt > apps[1].tasks[2].createdAt
    /\ apps[1].tasks[1] = last.before[1]

\* C34: on a page opened on an empty store, no two tasks of the collection
\* have texts that are equal once trimmed and put in lower case
C34_NoDuplicateTexts ==
    origin = "empty" =>
        \A t \in DOMAIN apps :
            \A i, j \in 1..Len(apps[t].tasks) :
                i # j => toLowerCase(trim(apps[t].tasks[i].text))
                            # toLowerCase(trim(apps[t].tasks[j].text))

\* C35: on a page opened on an empty store, the text of every task is a
\* fixed point of sanitizeInput: it holds no angle bracket, neither begins
\* nor ends with white space and holds no two white-space characters in a row
C35_TextsSanitized ==
    origin = "empty" =>
        \A t \in DOMAIN apps :
            \A i \in 1..Len(apps[t].tasks) :
                LET text == apps[t].tasks[i].text
                IN  /\ sanitizeInput(text) = text
                    /\ \A k \in 1..Len(text) : text[k] \notin {60, 62}
                    /\ trim(text) = text
                    /\ \A k \in 1..(Len(text) - 1) :
                          ~(text[k] \in WhiteSpace /\ text[k + 1] \in WhiteSpace)

\* C36: a call of saveTasks that returns false leaves both keys as they
\* were and one that returns true has written both, so that the taskCount of
\* the stored metadata is always the length of the stored task list
C36_AllOrNothing ==
    [][Ran("saveTasks") =>
        /\ IF last'.saves = <<TRUE>>
           THEN /\ localStorage'.tasks.kind = "array"
                /\ localStorage'.meta.present
                /\ localStorage'.meta.lastModified = now
           ELSE localStorage' = localStorage
        /\ localStorage'.meta.present =>
               /\ localStorage'.tasks.kind = "array"
               /\ localStorage'.meta.taskCount = Len(localStorage'.tasks.items)]_vars

(***************************************************************************)
(* SpecLost: two tabs are opened on an empty store and every write          *)
(* succeeds; tab 1 submits the text "a", tab 2 submits the text "b" and     *)
(* toggles tasks; nothing deletes, clears or undoes.                        *)
(***************************************************************************)
LostEnv(t) == Env({IF t = 1 THEN <<97>> ELSE <<98>>}, {0}, {"ok"})

NextLost ==
    \/ ToggleTask(2, LostEnv(2))
    \/ \E t \in Tabs :
          \/ Initialize(t)
          \/ HandleTaskSubmit(t, LostEnv(t))
          \/ HandleStorageChange(t)
          \/ RunMicrotask(t)

SpecLost == InitOfTabs /\ [][NextLost]_vars

\* C37: tab 1 has pushed a snapshot only by creating a task "a", which no
\* tab removes, so once every pending event has been handled localStorage
\* still holds a task "a"
C37_CreatedTaskKept ==
    (Quiet /\ apps[1].history # <<>>) =>
        /\ localStorage.tasks.kind = "array"
        /\ \E i \in 1..Len(localStorage.tasks.items) :
              localStorage.tasks.items[i].text = <<97>>

\* C38: an undo that a tab runs right after the reload and render that
\* followed a storage event puts no snapshot of the tab's history, all of
\* them recorded before the reload, in the place of the reloaded collection,
\* neither in the tab nor in localStorage
C38_UndoKeepsReloaded ==
    [][(last.op = "runMicrotask" /\ Ran("undo") /\ last'.tab = last.tab) =>
        LET t == last'.tab
            reloaded == apps[t].tasks
            h == apps[t].history
        IN  \A i \in 1..Len(h) :
                JSONparse(h[i]) # reloaded =>
                    /\ apps'[t].tasks # JSONparse(h[i])
                    /\ localStorage'.tasks.items # JSONparse(h[i])]_vars

(***************************************************************************)
(* SpecTheme: two tabs are opened on an empty store; both press the theme   *)
(* button, tab 1 presses the filter buttons and tab 2 submits the form.     *)
(***************************************************************************)
ThemeEnv == Env({<<97>>}, {0}, {"ok"})

\* a click on the theme button, or Ctrl/Cmd + D
ToggleTheme(t) ==
    /\ Idle(t)
    /\ Do(t, "toggleTheme", 0, <<>>, "ok", toggleTheme(Ctx(t)))

NextTheme ==
    \/ HandleFilterChange(1)
    \/ HandleTaskSubmit(2, ThemeEnv)
    \/ \E t \in Tabs :
          \/ Initialize(t)
          \/ ToggleTheme(t)
          \/ HandleStorageChange(t)
          \/ RunMicrotask(t)

SpecTheme == InitOfTabs /\ [][NextTheme]_vars

\* C39: after every step the data-theme attribute of each initialised tab is
\* the theme of its settings, also after the reload that follows a storage
\* event; after toggleTheme and after setFilter the stored settings are the
\* settings of the tab; toggleTheme turns the applied theme light into dark
\* and dark into light
C39_ThemeApplied ==
    [][now' = now =>
        /\ \A t \in DOMAIN apps :
              apps'[t].isInitialized => apps'[t].dataTheme = apps'[t].settings.theme
        /\ last'.op \in {"toggleTheme", "setFilter"} =>
              /\ localStorage'.settings.present
              /\ loadSettings(localStorage') = apps'[last'.tab].settings
        /\ last'.op = "toggleTheme" =>
              /\ apps[last'.tab].dataTheme \in {"light", "dark"}
              /\ apps'[last'.tab].dataTheme \in {"light", "dark"}
              /\ apps'[last'.tab].dataTheme # apps[last'.tab].dataTheme]_vars

=============================================================================
